---- MODULE Spec2Model ----
(***************************************************************************)
(* State-machine model of server.js: the lobby registry, the game-session  *)
(* phase engine with its countdown timers and dwell callbacks, and the     *)
(* disconnected-player sweep.                                              *)
(*                                                                         *)
(* Time is discrete, one Tick per second.  A setTimeout is a record with   *)
(* the whole seconds left before it runs; a setInterval of 1000 ms is a    *)
(* live handle that becomes due at every Tick.  Everything due at the same *)
(* second may run in any order (the sub-second offsets are not modelled).  *)
(* The sweep's Date.now() is measured in sweep periods, see Sweep.         *)
(***************************************************************************)
EXTENDS Integers, Sequences, FiniteSets, TLC

\* ------------------------------------------------------------ inputs
\* Session codes generateLobbyCode can return and display names clients use.
Codes == {"X", "Y"}
Users == {"A", "B", "C"}
VoteValues == {"yes", "no"}
AnswerValues == {"true", "false"}
null == "null"

\* ------------------------------------------------------------ bounds
\* Callbacks that may be waiting in the event loop's timer queue at once.
MaxTimeouts == 2
\* GameState objects that are no longer in gameStates but are still
\* referenced by the closure of a running interval or a waiting callback.
MaxRetired == 1
\* Accepted start-game / restart-game requests per run.
MaxStarts == 2
\* leave-lobby events per run, in the scenarios of one session.
MaxLeaves == 1
\* disconnect events per run, in the scenarios with sockets.
MaxDisconnects == 2

\* ------------------------------------------------------------ program constants
totalRounds == 15
votingSeconds == 30
confessionSeconds == 60
guessingSeconds == 30
minimumVotingTime == 15
minimumGuessingTime == 15
startDelay == 2
earlyDelay == 1
initialResultsDwell == 4
playerSelectionDwell == 3
confessionResultsDwell == 5
scoreboardDwell == 5
waitingDwell == 3
\* timeout (5 * 60 * 1000 ms) divided by the sweep period (60000 ms)
graceSweeps == 5

\* ------------------------------------------------------------ JS Map / object helpers
EmptyMap == [k \in {} |-> null]
MapSet(m, k, v) == [x \in (DOMAIN m) \cup {k} |-> IF x = k THEN v ELSE m[x]]
MapDel(m, k) == [x \in (DOMAIN m) \ {k} |-> m[x]]
Has(m, k) == k \in DOMAIN m

\* Remove element i of a sequence.
RemoveAt(s, i) == [j \in 1..(Len(s) - 1) |-> IF j < i THEN s[j] ELSE s[j + 1]]

Range(s) == {s[i] : i \in 1..Len(s)}

VARIABLES
    neverHaveIEverTopics, \* the catalog read from never_have_i_ever_topics.txt at startup
    lobbies,              \* Map code -> lobby
    gameStates,           \* Map code -> gameState
    disconnectedPlayers,  \* Map username -> [code, age]
    sockets,              \* open sockets that sent join-lobby: {[lobbyCode, username]}
    timeouts,             \* waiting setTimeout callbacks
    retired,              \* gameState objects reachable only from closures
    counts,               \* start/restart and leave/disconnect events so far, and
                          \* the last event a handler ignored: <<[event, code, username]>>
    synced                \* the last answer to request-sync: <<[to, snapshot]>>, or <<>>

vars == <<neverHaveIEverTopics, lobbies, gameStates, disconnectedPlayers, sockets,
          timeouts, retired, counts, synced>>

\* The server after startup, with the given lines in the topics file.
Startup(topics) ==
    /\ neverHaveIEverTopics = topics
    /\ lobbies = EmptyMap
    /\ gameStates = EmptyMap
    /\ disconnectedPlayers = EmptyMap
    /\ sockets = {}
    /\ timeouts = <<>>
    /\ retired = <<>>
    /\ counts = [starts |-> 0, leaves |-> 0, dropped |-> <<>>]
    /\ synced = <<>>

\* ------------------------------------------------------------ lobby helpers
\* The object pushed to lobby.participants.  sweeps is history the code does
\* not keep: the runs of the sweep the participant has been disconnected
\* for, counted up to graceSweeps + 1.
Participant(username, isHost) ==
    [username |-> username, isHost |-> isHost, connected |-> TRUE, sweeps |-> 0]

\* lobby.participants.find(p => p.username === username) found something
IsParticipant(lobby, username) ==
    \E i \in 1..Len(lobby.participants) : lobby.participants[i].username = username

\* SetConnected without the test of the name: every participant is written.
SetConnectedOfAll(lobby, username, value) ==
    [lobby EXCEPT !.participants =
        [i \in 1..Len(@) |-> [@[i] EXCEPT !.connected = value, !.sweeps = 0]]]

\* participant.connected = value, for the participant named username
SetConnected(lobby, username, value) ==
    [lobby EXCEPT !.participants =
        [i \in 1..Len(@) |->
            IF @[i].username = username
            THEN [@[i] EXCEPT !.connected = value, !.sweeps = 0]
            ELSE @[i]]]

\* lobby.participants.filter(p => p.username !== username)
RemoveParticipant(lobby, username) ==
    [lobby EXCEPT !.participants = SelectSeq(@, LAMBDA p : p.username # username)]

\* Whether the game of this code is running in a phase other than waiting.
ActiveGame(code) ==
    /\ Has(gameStates, code)
    /\ gameStates[code].phase # "waiting"

\* ------------------------------------------------------------ closures
\* A waiting setTimeout callback: fn runs for code when delay seconds have
\* passed.  gen names the gameState object the callback's closure captured
\* (only showScoreboard's inner callback captures one; 0 otherwise).
Timeout(code, fn, delay, gen) ==
    [code |-> code, fn |-> fn, delay |-> delay, gen |-> gen]

\* A gameState object is still referenced after it left gameStates when its
\* interval is live or a showScoreboard inner callback waits on it.
Referenced(code, gs, queue) ==
    \/ gs.timerInterval # null
    \/ \E i \in 1..Len(queue) :
          queue[i].fn = "nextRound" /\ queue[i].code = code /\ queue[i].gen = gs.gen

\* What the closures can still read or write of an object that left gameStates.
Retire(code, gs) ==
    [code |-> code, gen |-> gs.gen, timer |-> gs.timer,
     timerInterval |-> gs.timerInterval, due |-> gs.due,
     roundNumber |-> gs.roundNumber, nUsed |-> Len(gs.usedTopics)]

\* retired after the object of code left gameStates (replaced or deleted).
RetiredAfterDrop(code, queue) ==
    IF Has(gameStates, code) /\ Referenced(code, gameStates[code], queue)
    THEN Append(retired, Retire(code, gameStates[code]))
    ELSE retired

\* Retired objects no closure references any more are garbage.
Collect(objs, queue) ==
    SelectSeq(objs, LAMBDA r :
        \/ r.timerInterval # null
        \/ \E i \in 1..Len(queue) :
              queue[i].fn = "nextRound" /\ queue[i].code = r.code /\ queue[i].gen = r.gen)

\* ------------------------------------------------------------ phase engine
\* Each function of the game logic is an operator from the gameState (and the
\* lobby) it reads to the gameState it leaves and the callbacks it schedules.
Out(gs, sched) == [gs |-> gs, sched |-> sched]

\* The object start-game builds.  gen is the object's identity; due says the
\* live interval's next run is at the current second.  The last three fields
\* are history the code does not keep: initialResultsEmitted,
\* confessionResultsEmitted and gameEnded record the 'initial-vote-results',
\* 'confession-results' and 'game-ended' broadcasts since the last
\* 'topic-selected' / 'game-started' broadcast.
NewGameState(lobby, gen) ==
    [gen |-> gen,
     phase |-> "initial-voting",
     roundNumber |-> 1,
     currentTopic |-> null,
     initialVotes |-> EmptyMap,
     selectedPlayer |-> null,
     playerInitialVote |-> null,
     confession |-> null,
     guesses |-> EmptyMap,
     scores |-> [u \in {lobby.participants[i].username : i \in 1..Len(lobby.participants)} |-> 0],
     usedTopics |-> <<>>,
     timer |-> votingSeconds,
     timerInterval |-> null,
     due |-> FALSE,
     initialResultsEmitted |-> 0,
     confessionResultsEmitted |-> 0,
     gameEnded |-> FALSE]

\* clearInterval(gameState.timerInterval).  A cleared handle and null behave
\* alike (the handle is only ever tested to clear it), so both are null here.
ClearTimer(gs) == [gs EXCEPT !.timerInterval = null, !.due = FALSE]

\* startTimer(code, seconds, callback): callback is named by the phase it ends.
startTimer(gs, seconds, callback) ==
    [gs EXCEPT !.timer = seconds, !.timerInterval = callback, !.due = FALSE]

endGame(gs) == [ClearTimer(gs) EXCEPT !.gameEnded = TRUE]

\* Catalog indices startInitialVotingPhase may draw.
AvailableTopics(gs) ==
    {i \in 1..Len(neverHaveIEverTopics) : i \notin Range(gs.usedTopics)}

\* neverHaveIEverTopics.indexOf(text): the first index holding the text.
IndexOf(text) ==
    CHOOSE i \in 1..Len(neverHaveIEverTopics) :
        /\ neverHaveIEverTopics[i] = text
        /\ \A j \in 1..(i - 1) : neverHaveIEverTopics[j] # text

\* pick is the catalog index Math.random selects among the available ones.
startInitialVotingPhase(code, gs, pick) ==
    IF AvailableTopics(gs) = {} THEN Out(endGame(gs), <<>>)
    ELSE Out(startTimer(
                [gs EXCEPT !.currentTopic = neverHaveIEverTopics[pick],
                           !.usedTopics = Append(@, IndexOf(neverHaveIEverTopics[pick])),
                           !.phase = "initial-voting",
                           !.initialVotes = EmptyMap,
                           !.selectedPlayer = null,
                           !.playerInitialVote = null,
                           !.confession = null,
                           !.guesses = EmptyMap,
                           !.initialResultsEmitted = 0,
                           !.confessionResultsEmitted = 0],
                votingSeconds, "initial-voting"),
             <<>>)

\* Number of connected participants whose recorded vote is v.
CountVotes(gs, lobby, v) ==
    Cardinality({i \in 1..Len(lobby.participants) :
        /\ lobby.participants[i].connected
        /\ Has(gs.initialVotes, lobby.participants[i].username)
        /\ gs.initialVotes[lobby.participants[i].username] = v})

\* MajorityVote with equal counts decided for "yes".
MajorityVoteOnTie(gs, lobby) ==
    IF CountVotes(gs, lobby, "yes") >= CountVotes(gs, lobby, "no") THEN "yes" ELSE "no"

MajorityVote(gs, lobby) ==
    IF CountVotes(gs, lobby, "yes") > CountVotes(gs, lobby, "no") THEN "yes"
    ELSE IF CountVotes(gs, lobby, "no") > CountVotes(gs, lobby, "yes") THEN "no"
    ELSE null

calculateInitialResults(code, gs, lobby) ==
    LET majorityVote == MajorityVote(gs, lobby)
        awarded == {u \in DOMAIN gs.scores :
                       /\ majorityVote # null
                       /\ IsParticipant(lobby, u)
                       /\ Has(gs.initialVotes, u)
                       /\ gs.initialVotes[u] = majorityVote}
    IN Out([gs EXCEPT !.scores = [u \in DOMAIN @ |-> IF u \in awarded THEN @[u] + 1 ELSE @[u]],
                      !.phase = "initial-results",
                      !.initialResultsEmitted = @ + 1],
           <<Timeout(code, "selectRandomPlayer", initialResultsDwell, 0)>>)

\* Names of the connected participants who voted.
EligiblePlayers(gs, lobby) ==
    {lobby.participants[i].username : i \in {j \in 1..Len(lobby.participants) :
        /\ lobby.participants[j].connected
        /\ Has(gs.initialVotes, lobby.participants[j].username)}}

\* pick is the eligible player Math.random selects.
selectRandomPlayer(code, gs, lobby, pick) ==
    IF EligiblePlayers(gs, lobby) = {} THEN Out(endGame(gs), <<>>)
    ELSE Out([gs EXCEPT !.selectedPlayer = pick,
                        !.playerInitialVote = gs.initialVotes[pick],
                        !.phase = "player-selection"],
             <<Timeout(code, "startConfessionPhase", playerSelectionDwell, 0)>>)

startConfessionPhase(code, gs) ==
    Out(startTimer([gs EXCEPT !.phase = "confession", !.confession = null],
                   confessionSeconds, "confession"),
        <<>>)

startGuessingPhase(code, gs) ==
    Out(startTimer([gs EXCEPT !.phase = "guessing", !.guesses = EmptyMap],
                   guessingSeconds, "guessing"),
        <<>>)

\* gameState.confession || 'true'
ActualConfession(gs) == IF gs.confession = null THEN "true" ELSE gs.confession

\* calculateConfessionResults without the test of participant.connected.
calculateConfessionResultsOfAll(code, gs, lobby) ==
    LET correct == {u \in DOMAIN gs.scores :
                       /\ IsParticipant(lobby, u)
                       /\ u # gs.selectedPlayer
                       /\ Has(gs.guesses, u)
                       /\ gs.guesses[u] = ActualConfession(gs)}
    IN Out([gs EXCEPT !.scores = [u \in DOMAIN @ |-> IF u \in correct THEN @[u] + 3 ELSE @[u]],
                      !.phase = "confession-results",
                      !.confessionResultsEmitted = @ + 1],
           <<Timeout(code, "showScoreboard", confessionResultsDwell, 0)>>)

calculateConfessionResults(code, gs, lobby) ==
    LET correct == {u \in DOMAIN gs.scores :
                       /\ \E i \in 1..Len(lobby.participants) :
                             /\ lobby.participants[i].username = u
                             /\ lobby.participants[i].connected
                       /\ u # gs.selectedPlayer
                       /\ Has(gs.guesses, u)
                       /\ gs.guesses[u] = ActualConfession(gs)}
    IN Out([gs EXCEPT !.scores = [u \in DOMAIN @ |-> IF u \in correct THEN @[u] + 3 ELSE @[u]],
                      !.phase = "confession-results",
                      !.confessionResultsEmitted = @ + 1],
           <<Timeout(code, "showScoreboard", confessionResultsDwell, 0)>>)

showScoreboard(code, gs) ==
    Out([gs EXCEPT !.phase = "scoreboard"],
        <<Timeout(code, "nextRound", scoreboardDwell, gs.gen)>>)

\* The test of showScoreboard's inner callback, after roundNumber++.
GameOver(roundNumber, nUsed) ==
    roundNumber > totalRounds \/ nUsed >= Len(neverHaveIEverTopics)

\* ------------------------------------------------------------ HTTP routes
\* app.post('/api/lobby/create'); code is what generateLobbyCode returns,
\* taken to be a code no lobby currently has.
CreateLobby(code, username) ==
    /\ ~Has(lobbies, code)
    /\ lobbies' = MapSet(lobbies, code,
           [host |-> username,
            participants |-> <<Participant(username, TRUE)>>,
            gameStarted |-> FALSE])
    /\ UNCHANGED <<neverHaveIEverTopics, synced, gameStates, disconnectedPlayers, sockets,
                   timeouts, retired, counts>>

\* app.post('/api/lobby/join')
HttpJoin(code, username) ==
    /\ Has(lobbies, code)
    /\ IF IsParticipant(lobbies[code], username)
       THEN /\ lobbies' = [lobbies EXCEPT ![code] = SetConnected(@, username, TRUE)]
            /\ UNCHANGED gameStates
       ELSE /\ lobbies' = [lobbies EXCEPT ![code].participants =
                               Append(@, Participant(username, FALSE))]
            /\ gameStates' = IF Has(gameStates, code)
                             THEN [gameStates EXCEPT ![code].scores = MapSet(@, username, 0)]
                             ELSE gameStates
    /\ UNCHANGED <<neverHaveIEverTopics, synced, disconnectedPlayers, sockets, timeouts,
                   retired, counts>>

\* ------------------------------------------------------------ socket handlers
\* socket.on('join-lobby'), sent by a socket that has no identity yet.  The
\* syncGameStateToPlayer callback it schedules only emits to that socket.
JoinLobby(code, username) ==
    /\ [lobbyCode |-> code, username |-> username] \notin sockets
    /\ sockets' = sockets \cup {[lobbyCode |-> code, username |-> username]}
    /\ lobbies' = IF Has(lobbies, code)
                  THEN [lobbies EXCEPT ![code] = SetConnected(@, username, TRUE)]
                  ELSE lobbies
    /\ UNCHANGED <<neverHaveIEverTopics, synced, gameStates, disconnectedPlayers,
                   timeouts, retired, counts>>

\* The else branch of leave-lobby and disconnect: the participant is removed
\* and the session is destroyed when it is empty or the host left.
\* clearFirst is disconnect's clearInterval before the delete.
RemoveOrDestroy(code, username, clearFirst) ==
    LET lobby == RemoveParticipant(lobbies[code], username)
    IN IF Len(lobby.participants) = 0 \/ username = lobby.host
       THEN /\ lobbies' = MapDel(lobbies, code)
            /\ gameStates' = MapDel(gameStates, code)
            /\ retired' =
                 IF Has(gameStates, code)
                    /\ Referenced(code, IF clearFirst THEN ClearTimer(gameStates[code])
                                        ELSE gameStates[code], timeouts)
                 THEN Append(retired, Retire(code, IF clearFirst THEN ClearTimer(gameStates[code])
                                                   ELSE gameStates[code]))
                 ELSE retired
       ELSE /\ lobbies' = [lobbies EXCEPT ![code] = lobby]
            /\ UNCHANGED <<gameStates, retired>>

\* participant.connected = false; disconnectedPlayers.set(username, {code, timestamp})
MarkDisconnected(code, username) ==
    /\ lobbies' = [lobbies EXCEPT ![code] = SetConnected(@, username, FALSE)]
    /\ disconnectedPlayers' = MapSet(disconnectedPlayers, username, [code |-> code, age |-> 0])

\* socket.on('leave-lobby')
LeaveLobby(code, username) ==
    /\ Has(lobbies, code)
    /\ counts' = [counts EXCEPT !.leaves = @ + 1]
    /\ IF ActiveGame(code)
       THEN /\ IF IsParticipant(lobbies[code], username)
               THEN MarkDisconnected(code, username)
               ELSE UNCHANGED <<lobbies, disconnectedPlayers>>
            /\ UNCHANGED <<gameStates, retired>>
       ELSE /\ RemoveOrDestroy(code, username, FALSE)
            /\ UNCHANGED disconnectedPlayers
    /\ UNCHANGED <<neverHaveIEverTopics, synced, sockets, timeouts>>

\* socket.on('disconnect') of a socket that sent join-lobby before
Disconnect(s) ==
    /\ s \in sockets
    /\ counts' = [counts EXCEPT !.leaves = @ + 1]
    /\ sockets' = sockets \ {s}
    /\ IF Has(lobbies, s.lobbyCode) /\ IsParticipant(lobbies[s.lobbyCode], s.username)
       THEN IF ActiveGame(s.lobbyCode)
            THEN /\ MarkDisconnected(s.lobbyCode, s.username)
                 /\ UNCHANGED <<gameStates, retired>>
            ELSE /\ RemoveOrDestroy(s.lobbyCode, s.username, TRUE)
                 /\ UNCHANGED disconnectedPlayers
       ELSE UNCHANGED <<lobbies, gameStates, disconnectedPlayers, retired>>
    /\ UNCHANGED <<neverHaveIEverTopics, synced, timeouts>>

\* A start-game that asks only for a lobby of two.
StartGameAcceptedFromAnyone(code, username) ==
    /\ Has(lobbies, code)
    /\ Len(lobbies[code].participants) >= 2

\* The condition under which start-game acts.
StartGameAccepted(code, username) ==
    /\ Has(lobbies, code)
    /\ lobbies[code].host = username
    /\ Len(lobbies[code].participants) >= 2

\* socket.on('start-game')
StartGame(code, username) ==
    /\ StartGameAccepted(code, username)
    /\ Len(timeouts) < MaxTimeouts
    /\ Len(RetiredAfterDrop(code, timeouts)) <= MaxRetired
    /\ counts' = [counts EXCEPT !.starts = @ + 1]
    /\ lobbies' = [lobbies EXCEPT ![code].gameStarted = TRUE]
    /\ gameStates' = MapSet(gameStates, code, NewGameState(lobbies[code], counts.starts + 1))
    /\ retired' = RetiredAfterDrop(code, timeouts)
    /\ timeouts' = Append(timeouts, Timeout(code, "startInitialVotingPhase", startDelay, 0))
    /\ UNCHANGED <<neverHaveIEverTopics, synced, disconnectedPlayers, sockets>>

\* participants.filter(p => p.connected !== false).every(p => map.hasOwnProperty(p.username)),
\* without the names in except
AllConnectedIn(lobby, map, except) ==
    \A i \in 1..Len(lobby.participants) :
        (lobby.participants[i].connected /\ lobby.participants[i].username \notin except)
            => Has(map, lobby.participants[i].username)

\* A handler that tests only that the code has a game.
AcceptedInAnyPhase(code) == Has(gameStates, code)

\* The conditions under which cast-initial-vote, make-confession and
\* make-guess act; otherwise the handler returns without doing anything.
CastInitialVoteAccepted(code) ==
    /\ Has(gameStates, code)
    /\ gameStates[code].phase = "initial-voting"

MakeConfessionAccepted(code, username) ==
    /\ Has(gameStates, code)
    /\ gameStates[code].phase = "confession"
    /\ gameStates[code].selectedPlayer = username

MakeGuessAccepted(code, username) ==
    /\ Has(gameStates, code)
    /\ gameStates[code].phase = "guessing"
    /\ username # gameStates[code].selectedPlayer

\* A handler whose condition fails: the event leaves no trace in the server
\* but the note kept here.
Dropped(event, code, username) ==
    /\ counts' = [counts EXCEPT
                     !.dropped = <<[event |-> event, code |-> code, username |-> username]>>]
    /\ UNCHANGED <<neverHaveIEverTopics, synced, lobbies, gameStates, disconnectedPlayers,
                   sockets, timeouts, retired>>

\* socket.on('cast-initial-vote')
CastInitialVote(code, username, vote) ==
    /\ CastInitialVoteAccepted(code)
    /\ LET gs == [gameStates[code] EXCEPT !.initialVotes = MapSet(@, username, vote)]
           early == /\ AllConnectedIn(lobbies[code], gs.initialVotes, {})
                    /\ votingSeconds - gs.timer >= minimumVotingTime
       IN IF early
          THEN /\ Len(timeouts) < MaxTimeouts
               /\ gameStates' = [gameStates EXCEPT ![code] = ClearTimer(gs)]
               /\ timeouts' = Append(timeouts,
                                  Timeout(code, "calculateInitialResults", earlyDelay, 0))
          ELSE /\ gameStates' = [gameStates EXCEPT ![code] = gs]
               /\ UNCHANGED timeouts
    /\ UNCHANGED <<neverHaveIEverTopics, synced, lobbies, disconnectedPlayers, sockets,
                   retired, counts>>

\* socket.on('make-confession')
MakeConfession(code, username, confession) ==
    /\ MakeConfessionAccepted(code, username)
    /\ Len(timeouts) < MaxTimeouts
    /\ gameStates' = [gameStates EXCEPT ![code] =
                          ClearTimer([@ EXCEPT !.confession = confession])]
    /\ timeouts' = Append(timeouts, Timeout(code, "startGuessingPhase", earlyDelay, 0))
    /\ UNCHANGED <<neverHaveIEverTopics, synced, lobbies, disconnectedPlayers, sockets,
                   retired, counts>>

\* socket.on('make-guess')
MakeGuess(code, username, guess) ==
    /\ MakeGuessAccepted(code, username)
    /\ LET gs == [gameStates[code] EXCEPT !.guesses = MapSet(@, username, guess)]
           early == /\ AllConnectedIn(lobbies[code], gs.guesses, {gs.selectedPlayer})
                    /\ guessingSeconds - gs.timer >= minimumGuessingTime
       IN IF early
          THEN /\ Len(timeouts) < MaxTimeouts
               /\ gameStates' = [gameStates EXCEPT ![code] = ClearTimer(gs)]
               /\ timeouts' = Append(timeouts,
                                  Timeout(code, "calculateConfessionResults", earlyDelay, 0))
          ELSE /\ gameStates' = [gameStates EXCEPT ![code] = gs]
               /\ UNCHANGED timeouts
    /\ UNCHANGED <<neverHaveIEverTopics, synced, lobbies, disconnectedPlayers, sockets,
                   retired, counts>>

\* syncGameStateToPlayer with one branch for the three phases after the votes.
syncGameStateToPlayerOfPhase(s, code) ==
    LET gs == gameStates[code]
    IN [phase |-> gs.phase,
        roundNumber |-> gs.roundNumber,
        currentTopic |-> gs.currentTopic,
        timer |-> gs.timer,
        scores |-> gs.scores,
        selectedPlayer |-> gs.selectedPlayer,
        lobby |-> lobbies[code],
        userVote |->
            IF gs.phase \in {"initial-voting", "initial-results"}
            THEN IF Has(gs.initialVotes, s.username) THEN gs.initialVotes[s.username] ELSE null
            ELSE IF gs.phase \in {"confession", "guessing", "confession-results"}
            THEN gs.confession
            ELSE null]

\* start-game with both its branches.
OnStartGame(code, username) ==
    IF StartGameAccepted(code, username)
    THEN StartGame(code, username)
    ELSE Dropped("start-game", code, username)

\* The three submission handlers with both their branches.
OnCastInitialVote(code, username, vote) ==
    IF CastInitialVoteAccepted(code)
    THEN CastInitialVote(code, username, vote)
    ELSE Dropped("cast-initial-vote", code, username)

OnMakeConfession(code, username, confession) ==
    IF MakeConfessionAccepted(code, username)
    THEN MakeConfession(code, username, confession)
    ELSE Dropped("make-confession", code, username)

OnMakeGuess(code, username, guess) ==
    IF MakeGuessAccepted(code, username)
    THEN MakeGuess(code, username, guess)
    ELSE Dropped("make-guess", code, username)

\* What syncGameStateToPlayer emits to socket s as 'sync-game-state'.  A key
\* that initialVotes or guesses does not have reads as undefined, which the
\* emitted JSON drops: the receiver sees no userVote, as with null.
syncGameStateToPlayer(s, code) ==
    LET gs == gameStates[code]
    IN [phase |-> gs.phase,
        roundNumber |-> gs.roundNumber,
        currentTopic |-> gs.currentTopic,
        timer |-> gs.timer,
        scores |-> gs.scores,
        selectedPlayer |-> gs.selectedPlayer,
        lobby |-> lobbies[code],
        userVote |->
            IF gs.phase \in {"initial-voting", "initial-results"}
            THEN IF Has(gs.initialVotes, s.username) THEN gs.initialVotes[s.username] ELSE null
            ELSE IF gs.phase = "confession"
            THEN gs.confession
            ELSE IF gs.phase \in {"guessing", "confession-results"}
            THEN IF Has(gs.guesses, s.username) THEN gs.guesses[s.username] ELSE null
            ELSE null]

\* socket.on('request-sync'), sent by socket s.  Nothing is emitted when the
\* code has no lobby or no game.
RequestSync(code, s) ==
    /\ s \in sockets
    /\ Has(gameStates, code)
    /\ Has(lobbies, code)
    /\ synced' = <<[to |-> s, snapshot |-> syncGameStateToPlayer(s, code)]>>
    /\ UNCHANGED <<neverHaveIEverTopics, lobbies, gameStates, disconnectedPlayers, sockets,
                   timeouts, retired, counts>>

\* socket.on('restart-game'), sent by socket s
RestartGame(code, s) ==
    /\ s \in sockets
    /\ Has(lobbies, code)
    /\ Has(gameStates, code)
    /\ s.username = lobbies[code].host
    /\ Len(timeouts) < MaxTimeouts
    /\ counts' = [counts EXCEPT !.starts = @ + 1]
    /\ gameStates' = [gameStates EXCEPT ![code] =
          ClearTimer([@ EXCEPT
              !.phase = "initial-voting",
              !.roundNumber = 1,
              !.currentTopic = null,
              !.initialVotes = EmptyMap,
              !.selectedPlayer = null,
              !.playerInitialVote = null,
              !.confession = null,
              !.guesses = EmptyMap,
              !.usedTopics = <<>>,
              !.timer = votingSeconds,
              !.scores = [u \in DOMAIN @ \cup
                               {lobbies[code].participants[i].username :
                                    i \in 1..Len(lobbies[code].participants)} |->
                            IF IsParticipant(lobbies[code], u) THEN 0 ELSE @[u]],
              !.initialResultsEmitted = 0,
              !.confessionResultsEmitted = 0,
              !.gameEnded = FALSE])]
    /\ timeouts' = Append(timeouts, Timeout(code, "startInitialVotingPhase", startDelay, 0))
    /\ UNCHANGED <<neverHaveIEverTopics, synced, lobbies, disconnectedPlayers, sockets, retired>>

\* ------------------------------------------------------------ event loop
\* The callback startTimer was given, run for code when a countdown reaches 0.
\* It looks the session up by code, so it acts on whatever object gameStates
\* holds now.  own says the countdown belongs to that object: only then is
\* the confession default written to it (the closure of startConfessionPhase
\* writes to the object it captured).
\* TimerCallback whose confession callback only starts the guessing phase.
TimerCallbackNoDefault(code, callback, gs, own) ==
    CASE callback = "initial-voting" -> calculateInitialResults(code, gs, lobbies[code])
      [] callback = "confession" -> startGuessingPhase(code, gs)
      [] callback = "guessing" -> calculateConfessionResults(code, gs, lobbies[code])

TimerCallback(code, callback, gs, own) ==
    CASE callback = "initial-voting" -> calculateInitialResults(code, gs, lobbies[code])
      [] callback = "confession" ->
            startGuessingPhase(code,
                IF own /\ gs.confession = null THEN [gs EXCEPT !.confession = "true"] ELSE gs)
      [] callback = "guessing" -> calculateConfessionResults(code, gs, lobbies[code])

\* gameStates and the queue after a function of the game logic ran for code.
Commit(code, out, queue, objs) ==
    /\ gameStates' = [gameStates EXCEPT ![code] = out.gs]
    /\ timeouts' = queue \o out.sched
    /\ retired' = Collect(objs, queue \o out.sched)

\* One run of the setInterval callback of the object gameStates holds for code.
IntervalTick(code) ==
    /\ Has(gameStates, code)
    /\ gameStates[code].timerInterval # null
    /\ gameStates[code].due
    /\ LET gs == [gameStates[code] EXCEPT !.timer = @ - 1, !.due = FALSE]
       IN IF gs.timer <= 0
          THEN Commit(code, TimerCallback(code, gs.timerInterval, ClearTimer(gs), TRUE),
                      timeouts, retired)
          ELSE /\ gameStates' = [gameStates EXCEPT ![code] = gs]
               /\ UNCHANGED <<timeouts, retired>>
    /\ UNCHANGED <<neverHaveIEverTopics, synced, lobbies, disconnectedPlayers, sockets, counts>>

\* One run of the setInterval callback of an object that left gameStates: it
\* counts the old object down and at 0 runs its callback for the code.
RetiredIntervalTick(i) ==
    /\ i \in 1..Len(retired)
    /\ retired[i].timerInterval # null
    /\ retired[i].due
    /\ LET r == [retired[i] EXCEPT !.timer = @ - 1, !.due = FALSE]
           code == r.code
       IN IF r.timer <= 0
          THEN LET objs == [retired EXCEPT ![i] = [r EXCEPT !.timerInterval = null]]
               IN IF Has(gameStates, code)
                  THEN Commit(code,
                              TimerCallback(code, r.timerInterval, gameStates[code], FALSE),
                              timeouts, objs)
                  ELSE /\ retired' = Collect(objs, timeouts)
                       /\ UNCHANGED <<gameStates, timeouts>>
          ELSE /\ retired' = [retired EXCEPT ![i] = r]
               /\ UNCHANGED <<gameStates, timeouts>>
    /\ UNCHANGED <<neverHaveIEverTopics, synced, lobbies, disconnectedPlayers, sockets, counts>>

\* The waiting callback i is due and is taken off the queue.
Due(i, fn) ==
    /\ i \in 1..Len(timeouts)
    /\ timeouts[i].fn = fn
    /\ timeouts[i].delay = 0

\* A callback that finds no gameState (or no lobby) for its code returns.
Gone(i) ==
    /\ timeouts' = RemoveAt(timeouts, i)
    /\ retired' = Collect(retired, RemoveAt(timeouts, i))
    /\ UNCHANGED <<neverHaveIEverTopics, synced, gameStates>>

RunStartInitialVotingPhase(i) ==
    /\ Due(i, "startInitialVotingPhase")
    /\ LET code == timeouts[i].code
       IN IF Has(gameStates, code) /\ Has(lobbies, code)
          THEN \E pick \in (IF AvailableTopics(gameStates[code]) = {} THEN {0}
                            ELSE AvailableTopics(gameStates[code])) :
                   Commit(code, startInitialVotingPhase(code, gameStates[code], pick),
                          RemoveAt(timeouts, i), retired)
          ELSE Gone(i)
    /\ UNCHANGED <<neverHaveIEverTopics, synced, lobbies, disconnectedPlayers, sockets, counts>>

RunCalculateInitialResults(i) ==
    /\ Due(i, "calculateInitialResults")
    /\ LET code == timeouts[i].code
       IN IF Has(gameStates, code) /\ Has(lobbies, code)
          THEN Commit(code, calculateInitialResults(code, gameStates[code], lobbies[code]),
                      RemoveAt(timeouts, i), retired)
          ELSE Gone(i)
    /\ UNCHANGED <<neverHaveIEverTopics, synced, lobbies, disconnectedPlayers, sockets, counts>>

RunSelectRandomPlayer(i) ==
    /\ Due(i, "selectRandomPlayer")
    /\ LET code == timeouts[i].code
       IN IF Has(gameStates, code) /\ Has(lobbies, code)
          THEN \E pick \in (IF EligiblePlayers(gameStates[code], lobbies[code]) = {} THEN {null}
                            ELSE EligiblePlayers(gameStates[code], lobbies[code])) :
                   Commit(code, selectRandomPlayer(code, gameStates[code], lobbies[code], pick),
                          RemoveAt(timeouts, i), retired)
          ELSE Gone(i)
    /\ UNCHANGED <<neverHaveIEverTopics, synced, lobbies, disconnectedPlayers, sockets, counts>>

RunStartConfessionPhase(i) ==
    /\ Due(i, "startConfessionPhase")
    /\ LET code == timeouts[i].code
       IN IF Has(gameStates, code)
          THEN Commit(code, startConfessionPhase(code, gameStates[code]),
                      RemoveAt(timeouts, i), retired)
          ELSE Gone(i)
    /\ UNCHANGED <<neverHaveIEverTopics, synced, lobbies, disconnectedPlayers, sockets, counts>>

RunStartGuessingPhase(i) ==
    /\ Due(i, "startGuessingPhase")
    /\ LET code == timeouts[i].code
       IN IF Has(gameStates, code)
          THEN Commit(code, startGuessingPhase(code, gameStates[code]),
                      RemoveAt(timeouts, i), retired)
          ELSE Gone(i)
    /\ UNCHANGED <<neverHaveIEverTopics, synced, lobbies, disconnectedPlayers, sockets, counts>>

RunCalculateConfessionResults(i) ==
    /\ Due(i, "calculateConfessionResults")
    /\ LET code == timeouts[i].code
       IN IF Has(gameStates, code) /\ Has(lobbies, code)
          THEN Commit(code, calculateConfessionResults(code, gameStates[code], lobbies[code]),
                      RemoveAt(timeouts, i), retired)
          ELSE Gone(i)
    /\ UNCHANGED <<neverHaveIEverTopics, synced, lobbies, disconnectedPlayers, sockets, counts>>

RunShowScoreboard(i) ==
    /\ Due(i, "showScoreboard")
    /\ LET code == timeouts[i].code
       IN IF Has(gameStates, code)
          THEN Commit(code, showScoreboard(code, gameStates[code]),
                      RemoveAt(timeouts, i), retired)
          ELSE Gone(i)
    /\ UNCHANGED <<neverHaveIEverTopics, synced, lobbies, disconnectedPlayers, sockets, counts>>

\* showScoreboard's inner callback.  It increments roundNumber of the object
\* it captured and tests that object; endGame and the next
\* startInitialVotingPhase go by the code.
RunNextRound(i) ==
    /\ Due(i, "nextRound")
    /\ LET code == timeouts[i].code
           gen == timeouts[i].gen
           queue == RemoveAt(timeouts, i)
           next == <<Timeout(code, "startInitialVotingPhase", waitingDwell, 0)>>
       IN IF Has(gameStates, code) /\ gameStates[code].gen = gen
          THEN LET gs == [gameStates[code] EXCEPT !.roundNumber = @ + 1]
               IN IF GameOver(gs.roundNumber, Len(gs.usedTopics))
                  THEN Commit(code, Out(endGame(gs), <<>>), queue, retired)
                  ELSE Commit(code, Out([gs EXCEPT !.phase = "waiting"], next), queue, retired)
          ELSE LET objs == [k \in 1..Len(retired) |->
                               IF retired[k].code = code /\ retired[k].gen = gen
                               THEN [retired[k] EXCEPT !.roundNumber = @ + 1]
                               ELSE retired[k]]
                   k0 == CHOOSE k \in 1..Len(retired) :
                               retired[k].code = code /\ retired[k].gen = gen
               IN IF GameOver(objs[k0].roundNumber, objs[k0].nUsed)
                  THEN IF Has(gameStates, code)
                       THEN Commit(code, Out(endGame(gameStates[code]), <<>>), queue, objs)
                       ELSE /\ timeouts' = queue
                            /\ retired' = Collect(objs, queue)
                            /\ UNCHANGED gameStates
                  ELSE /\ timeouts' = queue \o next
                       /\ retired' = Collect(objs, queue \o next)
                       /\ UNCHANGED gameStates
    /\ UNCHANGED <<neverHaveIEverTopics, synced, lobbies, disconnectedPlayers, sockets, counts>>

\* One second passes: nothing is due any more at the current second; every
\* waiting callback is a second closer and every live interval is due.
Tick ==
    /\ \A i \in 1..Len(timeouts) : timeouts[i].delay > 0
    /\ \A c \in DOMAIN gameStates : ~gameStates[c].due
    /\ \A i \in 1..Len(retired) : ~retired[i].due
    /\ timeouts' = [i \in 1..Len(timeouts) |-> [timeouts[i] EXCEPT !.delay = @ - 1]]
    /\ gameStates' = [c \in DOMAIN gameStates |->
                         [gameStates[c] EXCEPT !.due = (gameStates[c].timerInterval # null)]]
    /\ retired' = [i \in 1..Len(retired) |->
                         [retired[i] EXCEPT !.due = (retired[i].timerInterval # null)]]
    /\ UNCHANGED <<neverHaveIEverTopics, synced, lobbies, disconnectedPlayers, sockets, counts>>

\* The setInterval of 60000 ms that cleans up disconnectedPlayers.  age is
\* the number of sweeps an entry has seen: now - timestamp exceeds the
\* timeout of graceSweeps periods exactly from the sweep after those on.
Expired(entry) == entry.age >= graceSweeps

\* The participants a run of the sweep leaves, one run older if disconnected.
Swept(participants) ==
    [i \in 1..Len(participants) |->
        IF participants[i].connected \/ participants[i].sweeps > graceSweeps
        THEN participants[i]
        ELSE [participants[i] EXCEPT !.sweeps = @ + 1]]

\* A run of the sweep changes nothing when no entry is tracked and nobody is
\* disconnected; those runs are left out.
Sweep ==
    /\ \/ DOMAIN disconnectedPlayers # {}
       \/ \E c \in DOMAIN lobbies : \E i \in 1..Len(lobbies[c].participants) :
             /\ ~lobbies[c].participants[i].connected
             /\ lobbies[c].participants[i].sweeps <= graceSweeps
    /\ lobbies' = [c \in DOMAIN lobbies |->
          [lobbies[c] EXCEPT !.participants = Swept(SelectSeq(@, LAMBDA p :
              ~(/\ Has(disconnectedPlayers, p.username)
                /\ Expired(disconnectedPlayers[p.username])
                /\ disconnectedPlayers[p.username].code = c)))]]
    /\ disconnectedPlayers' =
          [u \in {v \in DOMAIN disconnectedPlayers : ~Expired(disconnectedPlayers[v])} |->
              [disconnectedPlayers[u] EXCEPT !.age = @ + 1]]
    /\ UNCHANGED <<neverHaveIEverTopics, synced, gameStates, sockets, timeouts, retired, counts>>

\* ------------------------------------------------------------ specification
\* A topics file of sixteen lines, one more than totalRounds.
SixteenTopics ==
    <<"eaten a bug on purpose", "gone skinny dipping", "lied about my age",
      "pretended to be sick to skip work/school",
      "stalked someone on social media for hours", "cried during a movie",
      "had a crush on a teacher", "stolen something from a store",
      "been in a fight", "kissed someone on the first date",
      "gotten a tattoo I regret", "fallen asleep during a movie in theaters",
      "texted the wrong person by mistake", "pretended to know a song I didn't know",
      "laughed so hard I peed myself", "been caught talking to myself">>

\* A topics file whose two lines are the same.
TwoAlike == <<"eaten a bug on purpose", "eaten a bug on purpose">>

\* A topics file of three lines.
ThreeTopics == <<"eaten a bug on purpose", "gone skinny dipping", "lied about my age">>

\* The topics files the server is started with.
Catalogs ==
    {<<"eaten a bug on purpose">>,
     <<"eaten a bug on purpose", "gone skinny dipping">>,
     ThreeTopics, TwoAlike, SixteenTopics}

Init == \E topics \in Catalogs : Startup(topics)

\* The waiting callbacks that are due.
RunTimeout(i) ==
    \/ RunStartInitialVotingPhase(i)
    \/ RunCalculateInitialResults(i)
    \/ RunSelectRandomPlayer(i)
    \/ RunStartConfessionPhase(i)
    \/ RunStartGuessingPhase(i)
    \/ RunCalculateConfessionResults(i)
    \/ RunShowScoreboard(i)
    \/ RunNextRound(i)

\* Every event of the server, for every code, name and socket.
Next ==
    \/ Tick
    \/ Sweep
    \/ \E c \in Codes : IntervalTick(c)
    \/ \E i \in 1..Len(retired) : RetiredIntervalTick(i)
    \/ \E i \in 1..Len(timeouts) : RunTimeout(i)
    \/ \E c \in Codes, u \in Users :
          \/ CreateLobby(c, u)
          \/ HttpJoin(c, u)
          \/ JoinLobby(c, u)
          \/ counts.leaves < MaxLeaves /\ LeaveLobby(c, u)
          \/ counts.starts < MaxStarts /\ OnStartGame(c, u)
          \/ \E v \in VoteValues : OnCastInitialVote(c, u, v)
          \/ \E a \in AnswerValues : OnMakeConfession(c, u, a) \/ OnMakeGuess(c, u, a)
    \/ \E c \in Codes, s \in sockets : RequestSync(c, s)
    \/ \E s \in sockets :
          \/ counts.leaves < MaxDisconnects /\ Disconnect(s)
          \/ \E c \in Codes : counts.starts < MaxStarts /\ RestartGame(c, s)

Spec == Init /\ [][Next]_vars

(***************************************************************************)
(* Spec has more reachable states than can be enumerated.  The             *)
(* specifications below take Next's events for a scenario each: every one  *)
(* of their behaviours is a behaviour of Spec.                             *)
(***************************************************************************)

\* One round of one session: A creates the lobby, B joins over HTTP, A starts
\* the game once; both vote, confess and guess at any second, and a
\* participant may leave during the game and come back.
RoundNext ==
    \/ Tick
    \/ IntervalTick("X")
    \/ \E i \in 1..Len(timeouts) : RunTimeout(i)
    \/ CreateLobby("X", "A")
    \/ HttpJoin("X", "B")
    \/ counts.starts < 1 /\ StartGame("X", "A")
    \/ \E u \in {"A", "B"} :
          \/ counts.leaves < MaxLeaves /\ ActiveGame("X") /\ LeaveLobby("X", u)
          \/ \E v \in VoteValues : CastInitialVote("X", u, v)
          \/ \E a \in AnswerValues : MakeConfession("X", u, a) \/ MakeGuess("X", u, a)

SpecRound == Startup(<<"eaten a bug on purpose">>) /\ [][RoundNext]_vars

\* The initial vote among three: A creates the lobby, B and C join over
\* HTTP, A starts the game once; all three vote at any second and a
\* participant may leave during the game.  Nobody confesses or guesses.
VotingNext ==
    \/ Tick
    \/ IntervalTick("X")
    \/ \E i \in 1..Len(timeouts) : RunTimeout(i)
    \/ CreateLobby("X", "A")
    \/ HttpJoin("X", "B")
    \/ HttpJoin("X", "C")
    \/ counts.starts < 1 /\ StartGame("X", "A")
    \/ \E u \in {"A", "B", "C"} :
          \/ counts.leaves < MaxLeaves /\ ActiveGame("X") /\ LeaveLobby("X", u)
          \/ \E v \in VoteValues : CastInitialVote("X", u, v)

SpecVoting == Startup(<<"eaten a bug on purpose">>) /\ [][VotingNext]_vars

\* The guesses of two: as in SpecVoting, but only A votes, so A is the one
\* selected to confess; B and C guess at any second and may leave.
GuessingNext ==
    \/ Tick
    \/ IntervalTick("X")
    \/ \E i \in 1..Len(timeouts) : RunTimeout(i)
    \/ CreateLobby("X", "A")
    \/ HttpJoin("X", "B")
    \/ HttpJoin("X", "C")
    \/ counts.starts < 1 /\ StartGame("X", "A")
    \/ CastInitialVote("X", "A", "yes")
    \/ \E a \in AnswerValues :
          \/ MakeConfession("X", "A", a)
          \/ \E u \in {"B", "C"} : MakeGuess("X", u, a)
    \/ \E u \in {"B", "C"} :
          counts.leaves < MaxLeaves /\ ActiveGame("X") /\ LeaveLobby("X", u)

SpecGuessing == Startup(<<"eaten a bug on purpose">>) /\ [][GuessingNext]_vars

\* Starting over: A creates the lobby and opens a socket, B joins, and A
\* sends start-game and restart-game up to MaxStarts times, at any second
\* of the running game.  Only A votes.
TimersNext ==
    \/ Tick
    \/ IntervalTick("X")
    \/ \E i \in 1..Len(retired) : RetiredIntervalTick(i)
    \/ \E i \in 1..Len(timeouts) : RunTimeout(i)
    \/ CreateLobby("X", "A")
    \/ HttpJoin("X", "B")
    \/ JoinLobby("X", "A")
    \/ counts.starts < MaxStarts /\ StartGame("X", "A")
    \/ counts.starts < MaxStarts /\ RestartGame("X", [lobbyCode |-> "X", username |-> "A"])
    \/ CastInitialVote("X", "A", "yes")

SpecTimers == Startup(<<"eaten a bug on purpose">>) /\ [][TimersNext]_vars

\* Coming back: A creates the lobby, B and C join over HTTP and B opens a
\* socket; A starts the game once and A and B vote "yes" at any second.  B's
\* socket disconnects and B joins again, over the socket or over HTTP, while
\* the sweep runs.
ReconnectNext ==
    \/ Tick
    \/ Sweep
    \/ IntervalTick("X")
    \/ \E i \in 1..Len(timeouts) : RunTimeout(i)
    \/ CreateLobby("X", "A")
    \/ HttpJoin("X", "B")
    \/ HttpJoin("X", "C")
    \/ JoinLobby("X", "B")
    \/ counts.leaves < MaxDisconnects
          /\ Disconnect([lobbyCode |-> "X", username |-> "B"])
    \/ counts.starts < 1 /\ StartGame("X", "A")
    \/ CastInitialVote("X", "A", "yes")
    \/ CastInitialVote("X", "B", "yes")

SpecReconnect == Startup(<<"eaten a bug on purpose">>) /\ [][ReconnectNext]_vars

\* Presence in two sessions: A hosts X and C hosts Y, and a client named B is
\* in both.  The games are started once each; B's sockets disconnect and
\* rejoin while the sweep runs.  Nobody votes.
PresenceNext ==
    \/ Tick
    \/ Sweep
    \/ \E c \in Codes : IntervalTick(c)
    \/ \E i \in 1..Len(timeouts) : RunTimeout(i)
    \/ CreateLobby("X", "A")
    \/ CreateLobby("Y", "C")
    \/ \E c \in Codes :
          \/ HttpJoin(c, "B")
          \/ JoinLobby(c, "B")
          \/ counts.leaves < MaxDisconnects
                /\ Disconnect([lobbyCode |-> c, username |-> "B"])
    \/ ~Has(gameStates, "X") /\ StartGame("X", "A")
    \/ ~Has(gameStates, "Y") /\ StartGame("Y", "C")

SpecPresence == Startup(<<"eaten a bug on purpose">>) /\ [][PresenceNext]_vars

\* Math.random draws the topics in the order of the catalog, or earlier ones.
InCatalogOrder ==
    \A c \in DOMAIN gameStates :
        \A k \in 1..Len(gameStates[c].usedTopics) : gameStates[c].usedTopics[k] <= k

\* A whole game: A creates the lobby, B joins over HTTP, A starts the game
\* once.  In every round A votes "yes" and confesses "true" and B guesses
\* "false", each at any second and any number of times.
RoundsNext ==
    \/ Tick
    \/ IntervalTick("X")
    \/ \E i \in 1..Len(timeouts) : RunTimeout(i) /\ InCatalogOrder'
    \/ CreateLobby("X", "A")
    \/ HttpJoin("X", "B")
    \/ counts.starts < 1 /\ StartGame("X", "A")
    \/ CastInitialVote("X", "A", "yes")
    \/ MakeConfession("X", "A", "true")
    \/ MakeGuess("X", "B", "false")

SpecRounds == Startup(SixteenTopics) /\ [][RoundsNext]_vars

\* The whole game of RoundsNext on that file.
SpecAlike == Startup(TwoAlike) /\ [][RoundsNext]_vars

\* The event loop runs what is due: a second passes, a countdown that is due
\* ticks and a callback whose delay has passed runs, each eventually.  The
\* players' events have no such guarantee.
TimersRun ==
    /\ WF_vars(Tick)
    /\ WF_vars(IntervalTick("X"))
    /\ WF_vars(\E i \in 1..Len(timeouts) : RunTimeout(i) /\ InCatalogOrder')

\* The whole game of RoundsNext on a topics file of two lines, with the
\* timers running.
SpecProgress ==
    /\ Startup(<<"eaten a bug on purpose", "gone skinny dipping">>)
    /\ [][RoundsNext]_vars
    /\ TimersRun

\* username is in the roster of the lobby of code.
IsMember(code, username) == Has(lobbies, code) /\ IsParticipant(lobbies[code], username)

\* One round watched through request-sync: A and B hold sockets, A votes
\* "yes" and B "no", the selected one confesses "true", the other guesses
\* "false".  The run is followed up to the first answer to a request-sync
\* and the requests sent in that same state.
SyncNext ==
    \/ synced = <<>> /\ Tick
    \/ synced = <<>> /\ IntervalTick("X")
    \/ \E i \in 1..Len(timeouts) : synced = <<>> /\ RunTimeout(i)
    \/ synced = <<>> /\ CreateLobby("X", "A")
    \/ synced = <<>> /\ HttpJoin("X", "B")
    \/ synced = <<>> /\ counts.starts < 1 /\ StartGame("X", "A")
    \/ synced = <<>> /\ CastInitialVote("X", "A", "yes")
    \/ synced = <<>> /\ CastInitialVote("X", "B", "no")
    \/ \E u \in {"A", "B"} :
          \/ synced = <<>> /\ Has(lobbies, "X") /\ JoinLobby("X", u)
          \/ synced = <<>> /\ MakeConfession("X", u, "true")
          \/ synced = <<>> /\ MakeGuess("X", u, "false")
    \/ \E s \in sockets : RequestSync("X", s)

SpecSync == Startup(<<"eaten a bug on purpose">>) /\ [][SyncNext]_vars

\* One round in which A and B send every submission at any time, in the
\* phase it belongs to or not, for their session X and for a code Y that has
\* no game.
DropsNext ==
    \/ Tick
    \/ IntervalTick("X")
    \/ \E i \in 1..Len(timeouts) : RunTimeout(i)
    \/ CreateLobby("X", "A")
    \/ HttpJoin("X", "B")
    \/ counts.starts < 1 /\ StartGame("X", "A")
    \/ \E u \in {"A", "B"} :
          \/ OnCastInitialVote("X", u, "yes")
          \/ OnMakeConfession("X", u, "true")
          \/ OnMakeGuess("X", u, "false")
    \/ OnCastInitialVote("Y", "A", "yes")
    \/ OnMakeConfession("Y", "A", "true")
    \/ OnMakeGuess("Y", "A", "false")

SpecDrops == Startup(<<"eaten a bug on purpose">>) /\ [][DropsNext]_vars

\* A game of two rounds on a topics file of three lines: A votes "yes" and
\* confesses "true", B guesses "false", and once the game exists one of them
\* leaves, in any phase; the sweep runs at any time.
LeavesNext ==
    \/ Tick
    \/ Sweep
    \/ IntervalTick("X")
    \/ \E i \in 1..Len(timeouts) : RunTimeout(i) /\ InCatalogOrder'
    \/ CreateLobby("X", "A")
    \/ HttpJoin("X", "B")
    \/ counts.starts < 1 /\ StartGame("X", "A")
    \/ CastInitialVote("X", "A", "yes")
    \/ MakeConfession("X", "A", "true")
    \/ MakeGuess("X", "B", "false")
    \/ \E u \in {"A", "B"} :
          counts.leaves < MaxLeaves /\ Has(gameStates, "X") /\ LeaveLobby("X", u)

SpecLeaves ==
    /\ Startup(ThreeTopics)
    /\ [][LeavesNext]_vars

\* Two lobbies and one game: X is hosted by A and joined by B, Y is hosted by
\* C and joined by another user who calls themself A.  Both users named A
\* open a socket, each in their own lobby.  The game of X is started once, A
\* and B vote "yes", and every open socket may send restart-game for X.
RestartNext ==
    \/ Tick
    \/ IntervalTick("X")
    \/ \E i \in 1..Len(timeouts) : RunTimeout(i)
    \/ CreateLobby("X", "A")
    \/ CreateLobby("Y", "C")
    \/ HttpJoin("X", "B")
    \/ HttpJoin("Y", "A")
    \/ \E c \in Codes : IsMember(c, "A") /\ JoinLobby(c, "A")
    \/ counts.starts < 1 /\ StartGame("X", "A")
    \/ \E u \in {"A", "B"} : CastInitialVote("X", u, "yes")
    \/ \E s \in sockets : counts.starts < MaxStarts /\ RestartGame("X", s)

SpecRestart == Startup(<<"eaten a bug on purpose">>) /\ [][RestartNext]_vars

\* start-game from everyone: A creates X and B joins it; A, B and C send
\* start-game for X and A sends it for Y, which does not exist, at any time,
\* until two games have been started.  A votes during the games.
StartNext ==
    \/ Tick
    \/ IntervalTick("X")
    \/ \E i \in 1..Len(retired) : RetiredIntervalTick(i)
    \/ \E i \in 1..Len(timeouts) : RunTimeout(i)
    \/ CreateLobby("X", "A")
    \/ HttpJoin("X", "B")
    \/ \E u \in Users : counts.starts < MaxStarts /\ OnStartGame("X", u)
    \/ counts.starts < MaxStarts /\ OnStartGame("Y", "A")
    \/ CastInitialVote("X", "A", "yes")

SpecStart == Startup(<<"eaten a bug on purpose">>) /\ [][StartNext]_vars

\* One game, restarted once: A hosts X, B joins and never votes, A opens a
\* socket, starts the game, votes "yes" and later sends restart-game, at any
\* second of any phase.
SupersedeNext ==
    \/ Tick
    \/ IntervalTick("X")
    \/ \E i \in 1..Len(timeouts) : RunTimeout(i)
    \/ CreateLobby("X", "A")
    \/ HttpJoin("X", "B")
    \/ JoinLobby("X", "A")
    \/ counts.starts < 1 /\ StartGame("X", "A")
    \/ counts.starts = 1 /\ RestartGame("X", [lobbyCode |-> "X", username |-> "A"])
    \/ CastInitialVote("X", "A", "yes")

SpecSupersede == Startup(<<"eaten a bug on purpose">>) /\ [][SupersedeNext]_vars

\* ------------------------------------------------------------ claims
\* The gameState of a code and the roster of its lobby, as the claims read them.
Game(c) == gameStates[c]
Roster(c) == lobbies[c].participants
Names(c) == {Roster(c)[i].username : i \in 1..Len(Roster(c))}
ConnectedNames(c) ==
    {Roster(c)[i].username : i \in {j \in 1..Len(Roster(c)) : Roster(c)[j].connected}}

\* Countdown timers running for a code: the interval of the object in
\* gameStates and the intervals of the objects that left it.
RunningTimers(c) ==
    (IF Has(gameStates, c) /\ Game(c).timerInterval # null THEN 1 ELSE 0)
    + Cardinality({i \in 1..Len(retired) :
                      retired[i].code = c /\ retired[i].timerInterval # null})

\* C1: at most one countdown timer is running for a session, whatever
\* sequence of start-game, restart-game, inputs and timer events came before.
C1_OneTimerPerSession == \A c \in Codes : RunningTimers(c) <= 1

\* C2: between two topic selections the initial-vote results are computed at
\* most once and the guess results are computed at most once.
C2_ResultsOncePerRound ==
    \A c \in Codes :
        Has(gameStates, c) =>
            /\ Game(c).initialResultsEmitted <= 1
            /\ Game(c).confessionResultsEmitted <= 1

\* C3: the phase leaves initial-voting (guessing) only when the countdown has
\* reached 0 or when at least 15 of its 30 seconds have elapsed.
C3_EarlyAdvanceFloor ==
    [][\A c \in Codes :
          (Has(gameStates, c) /\ Has(gameStates', c)) =>
             /\ (Game(c).phase = "initial-voting" /\ Game(c)'.phase # "initial-voting")
                   => \/ Game(c)'.timer <= 0
                      \/ votingSeconds - Game(c).timer >= minimumVotingTime
             /\ (Game(c).phase = "guessing" /\ Game(c)'.phase # "guessing")
                   => \/ Game(c)'.timer <= 0
                      \/ guessingSeconds - Game(c).timer >= minimumGuessingTime]_vars

\* Connected participants of c whose recorded vote is v.
Tally(c, v) ==
    Cardinality({u \in ConnectedNames(c) :
                    Has(Game(c).initialVotes, u) /\ Game(c).initialVotes[u] = v})

\* The strictly larger of the two tallies, null on a tie.
Majority(c) ==
    IF Tally(c, "yes") > Tally(c, "no") THEN "yes"
    ELSE IF Tally(c, "no") > Tally(c, "yes") THEN "no"
    ELSE null

\* C4: on the step that ends initial-voting, with a majority every participant
\* whose recorded vote equals it gains 1 and everybody else gains 0; with a
\* tie (0-0 included) no score changes.  The tally is over the connected only.
C4_MajorityScoring ==
    [][\A c \in Codes :
          (/\ Has(gameStates, c) /\ Has(gameStates', c)
           /\ Game(c).phase = "initial-voting"
           /\ Game(c)'.phase = "initial-results")
          => /\ DOMAIN Game(c)'.scores = DOMAIN Game(c).scores
             /\ \A u \in DOMAIN Game(c).scores :
                   Game(c)'.scores[u] =
                      Game(c).scores[u]
                      + (IF /\ Majority(c) # null
                            /\ u \in Names(c)
                            /\ Has(Game(c).initialVotes, u)
                            /\ Game(c).initialVotes[u] = Majority(c)
                         THEN 1 ELSE 0)]_vars

\* C4 happened: yes-yes-no gave A and B a point and C none.
C4_Witness ==
    /\ Has(gameStates, "X")
    /\ Game("X").phase = "initial-results"
    /\ Game("X").initialResultsEmitted = 1
    /\ Game("X").initialVotes = [A |-> "yes", B |-> "yes", C |-> "no"]
    /\ Game("X").scores = [A |-> 1, B |-> 1, C |-> 0]

\* The confession the guesses of c are compared with: what is recorded, and
\* "true" when nothing is.
Actual(c) == IF Game(c).confession \in AnswerValues THEN Game(c).confession ELSE "true"

\* C5: on the step that ends guessing, every connected participant other than
\* the confessor whose recorded guess equals the actual confession gains 3 and
\* everybody else gains 0.
C5_GuessScoring ==
    [][\A c \in Codes :
          (/\ Has(gameStates, c) /\ Has(gameStates', c)
           /\ Game(c).phase = "guessing"
           /\ Game(c)'.phase = "confession-results")
          => /\ DOMAIN Game(c)'.scores = DOMAIN Game(c).scores
             /\ \A u \in DOMAIN Game(c).scores :
                   Game(c)'.scores[u] =
                      Game(c).scores[u]
                      + (IF /\ u \in ConnectedNames(c)
                            /\ u # Game(c).selectedPlayer
                            /\ Has(Game(c).guesses, u)
                            /\ Game(c).guesses[u] = Actual(c)
                         THEN 3 ELSE 0)]_vars

\* C5 happened: A confessed "false"; B guessed "false" and gained 3, C guessed
\* "true" and gained nothing; A only has the point of the majority vote.
C5_Witness ==
    /\ Has(gameStates, "X")
    /\ Game("X").phase = "confession-results"
    /\ Game("X").confessionResultsEmitted = 1
    /\ Game("X").selectedPlayer = "A"
    /\ Game("X").confession = "false"
    /\ Game("X").guesses = [B |-> "false", C |-> "true"]
    /\ Game("X").scores = [A |-> 1, B |-> 3, C |-> 0]

\* C6: when the countdown of the confession phase reaches 0 and no confession
\* was submitted, the confession becomes "true" and the phase guessing; the
\* confession then stays as it is until the guesses are scored.
C6_ConfessionDefault ==
    [][\A c \in Codes :
          (Has(gameStates, c) /\ Has(gameStates', c)) =>
             /\ (/\ Game(c).phase = "confession"
                 /\ Game(c).confession = null
                 /\ Game(c).timer = 1
                 /\ IntervalTick(c))
                   => /\ Game(c)'.confession = "true"
                      /\ Game(c)'.phase = "guessing"
             /\ (/\ Game(c).phase = "guessing"
                 /\ Game(c)'.phase \in {"guessing", "confession-results"})
                   => Game(c)'.confession = Game(c).confession]_vars

\* C6 happened: nobody confessed, and the guesses were scored against "true".
C6_Witness ==
    /\ Has(gameStates, "X")
    /\ Game("X").phase = "confession-results"
    /\ Game("X").confessionResultsEmitted = 1
    /\ Game("X").confession = "true"
    /\ ~\E i \in 1..Len(timeouts) : timeouts[i].fn = "startGuessingPhase"

\* C7: once a confession is recorded in the confession phase, no later
\* make-confession of the round writes another value.
C7_FirstConfessionWins ==
    [][\A c \in Codes :
          (/\ Has(gameStates, c) /\ Has(gameStates', c)
           /\ Game(c).phase = "confession"
           /\ Game(c).confession # null
           /\ Game(c)'.phase = "confession"
           /\ Game(c)'.confession # null)
          => Game(c)'.confession = Game(c).confession]_vars

\* C8: a run of the sweep (a step that removes a participant and is not the
\* disconnect of a socket) never removes a connected participant.
C8_SweepKeepsConnected ==
    [][\A c \in Codes :
          (Has(lobbies, c) /\ Has(lobbies', c) /\ sockets' = sockets)
          => ConnectedNames(c) \subseteq Names(c)']_vars

\* The socket of u in c.
SocketOf(c, u) == [lobbyCode |-> c, username |-> u]

\* The step leaves the roster of c as it is, but for the connected flag of u.
SameRosterBut(c, u) ==
    /\ Len(Roster(c)') = Len(Roster(c))
    /\ \A i \in 1..Len(Roster(c)) :
          /\ Roster(c)'[i].username = Roster(c)[i].username
          /\ Roster(c)'[i].isHost = Roster(c)[i].isHost
          /\ Roster(c)[i].username # u => Roster(c)'[i].connected = Roster(c)[i].connected

SameScores(c) == Has(gameStates', c) /\ Game(c)'.scores = Game(c).scores

\* C9: for a participant u of a running game, the disconnect of u's socket
\* leaves u disconnected and a join of u leaves u connected, and each of the
\* two (any step that flips u's flag) leaves every score, u's position and
\* the rest of the roster as they were.
C9_ReconnectRoundTrip ==
    [][\A c \in Codes, u \in Users :
          (ActiveGame(c) /\ Has(lobbies, c) /\ Has(lobbies', c) /\ u \in Names(c)) =>
             /\ (SocketOf(c, u) \in sockets /\ SocketOf(c, u) \notin sockets')
                   => SameRosterBut(c, u) /\ SameScores(c) /\ u \notin ConnectedNames(c)'
             /\ (SocketOf(c, u) \notin sockets /\ SocketOf(c, u) \in sockets')
                   => SameRosterBut(c, u) /\ SameScores(c) /\ u \in ConnectedNames(c)'
             /\ (u \in Names(c)' /\ (u \in ConnectedNames(c)) # (u \in ConnectedNames(c)'))
                   => SameRosterBut(c, u) /\ SameScores(c)]_vars

\* C9 happened: B's disconnect from the running game of X is tracked, within
\* the grace window, and B has joined again: connected, second of three in
\* the roster as before, and with the point of the majority vote.
C9_Witness ==
    /\ ActiveGame("X")
    /\ Has(disconnectedPlayers, "B")
    /\ disconnectedPlayers["B"].code = "X"
    /\ disconnectedPlayers["B"].age < graceSweeps
    /\ SocketOf("X", "B") \in sockets
    /\ Len(Roster("X")) = 3
    /\ Roster("X")[2].username = "B"
    /\ Roster("X")[2].connected
    /\ Game("X").scores = [A |-> 1, B |-> 1, C |-> 0]

\* C10: no participant is still on a roster, disconnected, after more runs
\* of the sweep than the grace window has.
C10_EvictedAfterGrace ==
    \A c \in DOMAIN lobbies : \A i \in 1..Len(Roster(c)) :
        ~Roster(c)[i].connected => Roster(c)[i].sweeps <= graceSweeps

\* C11: a voting phase is started (a topic is drawn) only while roundNumber
\* is at most totalRounds and some catalog index is not yet used.
C11_RoundTermination ==
    [][\A c \in Codes :
          (/\ Has(gameStates, c) /\ Has(gameStates', c)
           /\ Len(Game(c)'.usedTopics) = Len(Game(c).usedTopics) + 1)
          => /\ Game(c).roundNumber <= totalRounds
             /\ AvailableTopics(Game(c)) # {}]_vars

\* The edges of the phase sequence, and the two early ends of a game.
PhaseEdges ==
    {<<"waiting", "initial-voting">>, <<"initial-voting", "initial-results">>,
     <<"initial-results", "player-selection">>, <<"player-selection", "confession">>,
     <<"confession", "guessing">>, <<"guessing", "confession-results">>,
     <<"confession-results", "scoreboard">>, <<"scoreboard", "waiting">>,
     <<"scoreboard", "ended">>, <<"waiting", "ended">>, <<"initial-results", "ended">>}

\* C12: without a restart-game, every change of the phase of a game follows
\* an edge of the phase sequence, and the two result phases are entered (their
\* results are broadcast) only from the phase before them.
C12_PhaseOrder ==
    [][\A c \in Codes :
          (/\ Has(gameStates, c) /\ Has(gameStates', c)
           /\ Game(c)'.gen = Game(c).gen)
          => /\ Game(c)'.phase # Game(c).phase
                => <<Game(c).phase, Game(c)'.phase>> \in PhaseEdges
             /\ Game(c)'.initialResultsEmitted > Game(c).initialResultsEmitted
                => Game(c).phase = "initial-voting"
             /\ Game(c)'.confessionResultsEmitted > Game(c).confessionResultsEmitted
                => Game(c).phase = "guessing"]_vars

\* C13: a game that has ended (game-ended was broadcast since the last
\* game-started) is in phase ended and has no countdown running.
C13_EndedIsTerminal ==
    \A c \in Codes :
        (Has(gameStates, c) /\ Game(c).gameEnded)
        => /\ Game(c).phase = "ended"
           /\ Game(c).timerInterval = null

\* The input participant u has given for the current phase of session c:
\* the own vote, the round's confession, or the own guess.
PriorInput(c, u) ==
    LET own(map) == IF Has(map, u) THEN map[u] ELSE null
    IN CASE Game(c).phase \in {"initial-voting", "initial-results"} -> own(Game(c).initialVotes)
         [] Game(c).phase = "confession" -> Game(c).confession
         [] Game(c).phase \in {"guessing", "confession-results"} -> own(Game(c).guesses)
         [] OTHER -> null

\* C14: the answer to a request-sync of a participant's socket carries that
\* participant's prior input for the current phase, and the request changes
\* nothing but the answer.
C14_SyncSnapshot ==
    [][synced' # synced
       => /\ synced'[1].snapshot.userVote
                = PriorInput(synced'[1].to.lobbyCode, synced'[1].to.username)
          /\ synced'[1].snapshot.phase = Game(synced'[1].to.lobbyCode).phase
          /\ UNCHANGED <<lobbies, gameStates, disconnectedPlayers, sockets,
                         timeouts, retired>>]_vars

\* B asks during the guessing phase, after voting "no" and guessing "false"
\* on A's confession "true", and is sent "false".
C14_Witness ==
    /\ synced # <<>>
    /\ synced[1].to = SocketOf("X", "B")
    /\ synced[1].snapshot.phase = "guessing"
    /\ synced[1].snapshot.userVote = "false"
    /\ Game("X").confession = "true"
    /\ Game("X").initialVotes = [u \in {"A", "B"} |-> IF u = "A" THEN "yes" ELSE "no"]

\* Map after gained an entry for u, or holds another value for u than before.
Entered(before, after, u) ==
    /\ Has(after, u)
    /\ IF Has(before, u) THEN after[u] # before[u] ELSE TRUE

\* C15: an ignored submission changes nothing of the server; a vote is
\* recorded only in initial-voting, a confession only in the confession
\* phase, and a guess only in guessing and not for the selected player.
C15_InvalidSubmissionsDropped ==
    [][/\ counts'.dropped # counts.dropped
          => UNCHANGED <<lobbies, gameStates, disconnectedPlayers, sockets, timeouts, retired>>
       /\ \A c \in Codes :
             (Has(gameStates, c) /\ Has(gameStates', c))
             => /\ \A u \in Users :
                      /\ Entered(Game(c).initialVotes, Game(c)'.initialVotes, u)
                         => Game(c).phase = "initial-voting"
                      /\ Entered(Game(c).guesses, Game(c)'.guesses, u)
                         => Game(c).phase = "guessing" /\ u # Game(c).selectedPlayer
                /\ (Game(c)'.confession # Game(c).confession /\ Game(c)'.confession # null)
                   => Game(c).phase = "confession"
       /\ \A c \in Codes : ~Has(gameStates, c) /\ Has(gameStates', c)
                           => Game(c)'.initialVotes = EmptyMap /\ Game(c)'.guesses = EmptyMap]_vars

\* B, who is not selected, has confessed during A's confession phase, and
\* nothing was recorded.
C15_Witness ==
    /\ counts.dropped = <<[event |-> "make-confession", code |-> "X", username |-> "B"]>>
    /\ Has(gameStates, "X")
    /\ Game("X").phase = "confession"
    /\ Game("X").selectedPlayer = "A"
    /\ Game("X").confession = null

\* C16: a leave or disconnect in a session that has a game keeps the lobby,
\* the game and every name of the roster.
C16_RunningGameKeepsSession ==
    [][\A c \in Codes :
          (counts'.leaves # counts.leaves /\ Has(lobbies, c) /\ Has(gameStates, c))
          => /\ Has(lobbies', c)
             /\ Has(gameStates', c)
             /\ Names(c)' = Names(c)]_vars

\* C17: a step that neither starts nor restarts a game lowers no score.
C17_ScoresNeverDecrease ==
    [][\A c \in Codes :
          (/\ counts'.starts = counts.starts
           /\ Has(gameStates, c) /\ Has(gameStates', c))
          => \A u \in DOMAIN Game(c).scores :
                 Has(Game(c)'.scores, u) /\ Game(c)'.scores[u] >= Game(c).scores[u]]_vars

\* C18: every lobby has exactly one participant with isHost, who bears the
\* name in the lobby's host field, and no name is twice in a roster.
C18_OneHost ==
    \A c \in DOMAIN lobbies :
        /\ Cardinality({i \in 1..Len(Roster(c)) : Roster(c)[i].isHost}) = 1
        /\ \A i \in 1..Len(Roster(c)) :
               Roster(c)[i].isHost => Roster(c)[i].username = lobbies[c].host
        /\ \A i, j \in 1..Len(Roster(c)) :
               Roster(c)[i].username = Roster(c)[j].username => i = j

\* C19: a restart-game acts only when sent by the socket the host opened in
\* that lobby; it then resets the game and every score and leaves the lobby
\* as it is.
C19_RestartByHostOnly ==
    [][\A c \in Codes :
          (\E s \in sockets : RestartGame(c, s))
          => /\ SocketOf(c, lobbies[c].host) \in sockets
             /\ lobbies' = lobbies
             /\ Game(c)'.phase = "initial-voting"
             /\ Game(c)'.roundNumber = 1
             /\ Game(c)'.initialVotes = EmptyMap
             /\ Game(c)'.guesses = EmptyMap
             /\ Game(c)'.selectedPlayer = null
             /\ Game(c)'.confession = null
             /\ Game(c)'.usedTopics = <<>>
             /\ \A u \in Names(c) : Game(c)'.scores[u] = 0]_vars

\* C20: a start-game from the host of a lobby of two or more creates a game
\* in initial-voting, round 1, with score 0 for the whole roster; any other
\* start-game leaves the games, the lobbies and the timeouts as they are.
C20_StartByHostOfTwo ==
    [][\A c \in Codes, u \in Users :
          OnStartGame(c, u)
          => IF Has(lobbies, c) /\ lobbies[c].host = u /\ Len(Roster(c)) >= 2
             THEN /\ Has(gameStates', c)
                  /\ Game(c)'.phase = "initial-voting"
                  /\ Game(c)'.roundNumber = 1
                  /\ Game(c)'.scores = [n \in Names(c) |-> 0]
                  /\ Roster(c)' = Roster(c)
             ELSE UNCHANGED <<lobbies, gameStates, timeouts, retired>>]_vars

\* A has started the game of X, and B's start-game for X was ignored.
C20_Witness ==
    /\ counts.dropped = <<[event |-> "start-game", code |-> "X", username |-> "B"]>>
    /\ counts.starts = 1
    /\ Has(gameStates, "X")
    /\ Game("X").scores = [n \in {"A", "B"} |-> 0]
    /\ Len(Roster("X")) = 2

\* C21: usedTopics holds no catalog index twice and is never longer than the
\* catalog.
C21_ExactByIndex ==
    \A c \in DOMAIN gameStates :
        /\ \A i, j \in 1..Len(Game(c).usedTopics) :
               Game(c).usedTopics[i] = Game(c).usedTopics[j] => i = j
        /\ Len(Game(c).usedTopics) <= Len(neverHaveIEverTopics)

\* C22: a game in initial-voting of round 1, as a restart leaves it, keeps
\* its phase, round, selected player, guesses and scores until the voting
\* phase ends in initial-results.
C22_RestartSupersedes ==
    [][\A c \in Codes :
          (/\ Has(gameStates, c) /\ Has(gameStates', c)
           /\ counts'.starts = counts.starts
           /\ Game(c).phase = "initial-voting"
           /\ Game(c).roundNumber = 1)
          => \/ /\ Game(c)'.phase = "initial-voting"
                /\ Game(c)'.roundNumber = 1
                /\ Game(c)'.selectedPlayer = Game(c).selectedPlayer
                /\ Game(c)'.guesses = Game(c).guesses
                /\ Game(c)'.scores = Game(c).scores
             \/ /\ Game(c)'.phase = "initial-results"
                /\ Game(c)'.roundNumber = 1]_vars

\* The phases that end with a countdown.
TimedPhases == {"initial-voting", "confession", "guessing"}

\* C23: a game that is in a timed phase eventually leaves it, and a game
\* that was started eventually ends.
C23_Progress ==
    \A c \in Codes :
        /\ \A p \in TimedPhases :
               (Has(gameStates, c) /\ Game(c).phase = p)
                   ~> (~Has(gameStates, c) \/ Game(c).phase # p)
        /\ Has(gameStates, c) ~> (~Has(gameStates, c) \/ Game(c).gameEnded)
====
